---------------------------- MODULE Spec2Model ----------------------------
(***************************************************************************)
(* A model of pgzstd (src/zstd.c): the PostgreSQL functions compress,      *)
(* decompress and length over zstd frames, and the library's load/unload   *)
(* hooks _PG_init and _PG_fini that own the two process-wide contexts.     *)
(*                                                                         *)
(* The build modelled is the one with ZSTD_CONTENTSIZE_UNKNOWN defined     *)
(* (libzstd >= 1.3.0, the #ifdef branches at lines 102-107 and 134-139)    *)
(* and a 64-bit size_t.  libzstd and the PostgreSQL allocator are outside  *)
(* the repository; they are modelled by their documented contracts, on a   *)
(* frame format reduced to 16-bit units:                                   *)
(*     <<magic, descriptor>> \o [4 units of content size] \o tokens        *)
(* Memory exhaustion inside a codec call or palloc is not modelled;        *)
(* the failure of ZSTD_createCCtx / ZSTD_createDCtx is.                    *)
(***************************************************************************)
EXTENDS Integers, Sequences, FiniteSets, TLC

\* ------------------------------------------------------------------ bounds
MaxLen == 3
ByteMax == 1
MaxInits == 2
MaxFinis == 3

\* --------------------------------------------------------------- constants
PG_INT32_MAX == 2147483647
DEFAULT_COMPRESSION_LEVEL == 3
VARHDRSZ == 4
MaxAllocSize == 1073741823

\* One unit of a buffer is 16 bits wide; a size_t is four units.
Limb == 2^16
LimbMax == Limb - 1

\* An optional argument or result: Absent (SQL NULL) or Some(x).
Absent == <<>>
Some(x) == <<x>>
Val(o) == o[1]

\* ------------------------------------------------------- size_t arithmetic
\* A 64-bit unsigned value as four 16-bit limbs, most significant first.
U64(n) == <<0, 0, n \div Limb, n % Limb>>

AddU64(a, b) ==
  LET s4 == a[4] + b[4]
      s3 == a[3] + b[3] + (s4 \div Limb)
      s2 == a[2] + b[2] + (s3 \div Limb)
      s1 == a[1] + b[1] + (s2 \div Limb)
  IN  <<s1 % Limb, s2 % Limb, s3 % Limb, s4 % Limb>>

GtU64(a, b) ==
  \/ a[1] > b[1]
  \/ a[1] = b[1] /\ a[2] > b[2]
  \/ a[1] = b[1] /\ a[2] = b[2] /\ a[3] > b[3]
  \/ a[1] = b[1] /\ a[2] = b[2] /\ a[3] = b[3] /\ a[4] > b[4]

\* The value of a size_t known to be below 2^31.
ToInt(a) == a[3] * Limb + a[4]

\* (int32) out_len: the low 32 bits, read as a signed integer.
Int32Cast(a) ==
  IF a[3] < Limb \div 2 THEN a[3] * Limb + a[4]
  ELSE (a[3] - Limb) * Limb + a[4]

ZSTD_CONTENTSIZE_UNKNOWN == <<LimbMax, LimbMax, LimbMax, LimbMax>>
ZSTD_CONTENTSIZE_ERROR == <<LimbMax, LimbMax, LimbMax, LimbMax - 1>>


\* ---------------------------------------------------------- host allocator
\* palloc(size): PostgreSQL refuses a request above MaxAllocSize with
\* elog(ERROR); any smaller request, 0 included, yields a chunk of that size.
Palloc(size) ==
  IF GtU64(size, U64(MaxAllocSize))
  THEN [ok |-> FALSE, size |-> 0]
  ELSE [ok |-> TRUE, size |-> ToInt(size)]

\* The value of memory the program never wrote.
Uninit == 43690

\* The data area of a varlena chunk of `alloc` bytes after the codec wrote
\* `written` at VARDATA(out): what was written, then untouched memory.
DataArea(alloc, written) ==
  written \o [i \in 1..(alloc - VARHDRSZ - Len(written)) |-> Uninit]

\* SET_VARSIZE(out, varsize) and PG_RETURN_BYTEA_P(out): the datum the host
\* reads is the first varsize - VARHDRSZ units of the data area.
Datum(area, varsize) == SubSeq(area, 1, varsize - VARHDRSZ)

\* ------------------------------------------------------------------- codec
ZSTD_MAGICNUMBER == 64815
FhdNoFcs == 0
FhdFcs8 == 224
LitBase == 16
MatchBase == 32
RleTag == 64
RleLevel == 3

ZSTD_compressBound(n) ==
  n + (n \div 256) + (IF n < 131072 THEN (131072 - n) \div 2048 ELSE 0)

\* The first position of byte c in the dictionary, 0 when it has none.
DictPos(c, dict) ==
  IF \E j \in 1..Len(dict) : dict[j] = c
  THEN CHOOSE j \in 1..Len(dict) :
         dict[j] = c /\ \A k \in 1..(j - 1) : dict[k] # c
  ELSE 0

\* A byte is coded as a reference into the dictionary when the dictionary
\* holds it, as a literal otherwise.
Sym(c, dict) ==
  IF DictPos(c, dict) > 0 THEN MatchBase + DictPos(c, dict) - 1
  ELSE LitBase + c

AllSame(b) == \A i \in 1..Len(b) : b[i] = b[1]

EncodeBlocks(src, dict, level) ==
  IF level >= RleLevel /\ Len(src) >= 3 /\ AllSame(src)
  THEN <<RleTag, Sym(src[1], dict), Len(src)>>
  ELSE [i \in 1..Len(src) |-> Sym(src[i], dict)]

\* The byte a symbol stands for under a dictionary, -1 for no symbol.
SymValue(u, dict) ==
  IF u >= MatchBase /\ u < MatchBase + Len(dict) THEN dict[u - MatchBase + 1]
  ELSE IF u >= LitBase /\ u < MatchBase THEN u - LitBase
  ELSE -1

\* The codec's result: the error flag, the bytes it wrote to dst (also those
\* written before an error) and the size it returns.
CodecErr(out) == [err |-> TRUE, out |-> out, n |-> 0]
CodecOk(out) == [err |-> FALSE, out |-> out, n |-> Len(out)]

\* ZSTD_compress_usingDict(cctx, dst, cap, src, srcSize, dict, dictSize, level):
\* a frame that declares its content size; dstSize_tooSmall when it does not
\* fit in cap.
ZSTD_compress_usingDict(cap, src, dict, level) ==
  LET frame == <<ZSTD_MAGICNUMBER, FhdFcs8>> \o U64(Len(src))
                 \o EncodeBlocks(src, dict, level)
  IN  IF GtU64(U64(Len(frame)), cap) THEN CodecErr(<<>>) ELSE CodecOk(frame)

\* ZSTD_getFrameContentSize(src, srcSize)
ZSTD_getFrameContentSize(src) ==
  IF Len(src) < 2 THEN ZSTD_CONTENTSIZE_ERROR
  ELSE IF src[1] # ZSTD_MAGICNUMBER THEN ZSTD_CONTENTSIZE_ERROR
  ELSE IF src[2] = FhdNoFcs THEN ZSTD_CONTENTSIZE_UNKNOWN
  ELSE IF src[2] # FhdFcs8 THEN ZSTD_CONTENTSIZE_ERROR
  ELSE IF Len(src) < 6 THEN ZSTD_CONTENTSIZE_ERROR
  ELSE <<src[3], src[4], src[5], src[6]>>

\* Whether src starts with a well-formed frame header, and where it ends.
HeaderOk(src) ==
  /\ Len(src) >= 2
  /\ src[1] = ZSTD_MAGICNUMBER
  /\ \/ src[2] = FhdNoFcs
     \/ src[2] = FhdFcs8 /\ Len(src) >= 6
HeaderLen(src) == IF src[2] = FhdFcs8 THEN 6 ELSE 2

\* The block decoder: every byte produced must fit in cap (dstSize_tooSmall),
\* every token must be a symbol (corruption_detected).
RECURSIVE Decode(_, _, _, _, _)
Decode(src, i, dict, out, cap) ==
  IF i > Len(src) THEN CodecOk(out)
  ELSE IF src[i] = RleTag
  THEN IF i + 2 > Len(src) THEN CodecErr(out)
       ELSE IF SymValue(src[i + 1], dict) < 0 \/ src[i + 2] < 1 THEN CodecErr(out)
       ELSE IF GtU64(U64(Len(out) + src[i + 2]), cap) THEN CodecErr(out)
       ELSE Decode(src, i + 3, dict,
                   out \o [k \in 1..src[i + 2] |-> SymValue(src[i + 1], dict)], cap)
  ELSE IF SymValue(src[i], dict) < 0 THEN CodecErr(out)
  ELSE IF GtU64(U64(Len(out) + 1), cap) THEN CodecErr(out)
  ELSE Decode(src, i + 1, dict, Append(out, SymValue(src[i], dict)), cap)

\* ZSTD_decompress_usingDict(dctx, dst, cap, src, srcSize, dict, dictSize):
\* a frame that declares its content size must decode to exactly that size.
ZSTD_decompress_usingDict(cap, src, dict) ==
  IF ~HeaderOk(src) THEN CodecErr(<<>>)
  ELSE LET d == Decode(src, HeaderLen(src) + 1, dict, <<>>, cap)
           fcs == ZSTD_getFrameContentSize(src)
       IN  IF d.err THEN d
           ELSE IF src[2] = FhdFcs8 /\ U64(Len(d.out)) # fcs THEN CodecErr(d.out)
           ELSE d

\* ------------------------------------------------------------------- state
VARIABLES
  phase,        \* "unloaded" | "ready" | "dead" (the process has exited) |
                \* "undefined" (it runs on with its memory damaged)
  cctx, dctx,   \* the static handles of lines 16-17; 0 is NULL
  live,         \* the contexts created and not yet freed
  frees,        \* how often each context was handed to ZSTD_free*Ctx
  inits, finis, \* calls of _PG_init and _PG_fini so far
  created,      \* the handles the last successful _PG_init returned with
  pc,           \* per worker: "idle" | "codec" (inside a context call) | "ret"
  call,         \* per worker: the call in progress or last completed
  loc,          \* per worker: the locals of that call
  log,          \* per worker: the codec calls of that call, in order
  res,          \* per worker: how that call ended
  failed,       \* per worker: an earlier call ended in elog(ERROR)
  raced         \* per worker: its context call overlapped another one

vars == <<phase, cctx, dctx, live, frees, inits, finis, created,
          pc, call, loc, log, res, failed, raced>>
lifecycle == <<cctx, dctx, live, frees, inits, finis, created>>

Workers == {1, 2}
Handles == 1..(2 * MaxInits)

Res(kind, bytes, num, why) ==
  [kind |-> kind, bytes |-> bytes, num |-> num, why |-> why]
NoRes == Res("none", <<>>, 0, "")
ResNull == Res("null", <<>>, 0, "")
ResBytes(b) == Res("bytes", b, 0, "")
ResInt(n) == Res("int", <<>>, n, "")
ResError(why) == Res("error", <<>>, 0, why)
ResCrash == Res("crash", <<>>, 0, "")

NoCall == [op |-> "none", in |-> Absent, dict |-> Absent, level |-> Absent,
           origin |-> Absent]
Loc(declared, alloc, cap, level, handle) ==
  [declared |-> declared, alloc |-> alloc, cap |-> cap, level |-> level,
   handle |-> handle]
NoLoc == Loc(U64(0), 0, U64(0), 0, 0)
\* A codec call of a handler: the routine, ZSTD_isError (or, for the size
\* query, ZSTD_CONTENTSIZE_ERROR) of what it returned, and what it returned.
Entry(fn, err, ret) == [fn |-> fn, err |-> err, ret |-> ret]

\* What the part of a handler before its context call leaves behind: either
\* the call is over (pc "ret", with its result) or it enters the codec.
Over(r, lg) == [pc |-> "ret", res |-> r, loc |-> NoLoc, log |-> lg]
Enter(l, lg) == [pc |-> "codec", res |-> NoRes, loc |-> l, log |-> lg]

Init ==
  /\ phase = "unloaded"
  /\ cctx = 0 /\ dctx = 0
  /\ live = {}
  /\ frees = [h \in Handles |-> 0]
  /\ inits = 0 /\ finis = 0
  /\ created = <<0, 0>>
  /\ pc = [w \in Workers |-> "idle"]
  /\ call = [w \in Workers |-> NoCall]
  /\ loc = [w \in Workers |-> NoLoc]
  /\ log = [w \in Workers |-> <<>>]
  /\ res = [w \in Workers |-> NoRes]
  /\ failed = [w \in Workers |-> FALSE]
  /\ raced = [w \in Workers |-> FALSE]

\* ------------------------------------------------------- context lifecycle
\* ZSTD_createCCtx / ZSTD_createDCtx: a fresh context, or NULL.
ZSTD_createCCtx(ok) == IF ok THEN 2 * inits + 1 ELSE 0
ZSTD_createDCtx(ok) == IF ok THEN 2 * inits + 2 ELSE 0

\* A variant of PG_init_outcome: the check of line 32 is missing.
PG_init_outcome_unchecked(c, d) ==
  IF c = 0 THEN [cctx |-> 0, dctx |-> dctx, made |-> {}, phase |-> "dead"]
  ELSE [cctx |-> c, dctx |-> d, made |-> {c, d} \ {0}, phase |-> "ready"]

\* _PG_init, given what the two create calls return.  elog(FATAL) ends the
\* process: after line 29 the decompressor context is never created.
PG_init_outcome(c, d) ==
  IF c = 0 THEN [cctx |-> 0, dctx |-> dctx, made |-> {}, phase |-> "dead"]
  ELSE IF d = 0 THEN [cctx |-> c, dctx |-> 0, made |-> {c}, phase |-> "dead"]
  ELSE [cctx |-> c, dctx |-> d, made |-> {c, d}, phase |-> "ready"]

\* The host loads the library: _PG_init runs before any function of it.
PG_init(maxInits) ==
  /\ phase = "unloaded"
  /\ inits < maxInits
  /\ \E okC \in BOOLEAN, okD \in BOOLEAN :
       LET o == PG_init_outcome(ZSTD_createCCtx(okC), ZSTD_createDCtx(okD))
       IN  /\ cctx' = o.cctx
           /\ dctx' = o.dctx
           /\ live' = live \cup o.made
           /\ phase' = o.phase
           /\ created' = IF o.phase = "ready" THEN <<o.cctx, o.dctx>> ELSE created
  /\ inits' = inits + 1
  /\ UNCHANGED <<frees, finis, pc, call, loc, log, res, failed, raced>>

\* The handles _PG_fini passes to ZSTD_freeCCtx / ZSTD_freeDCtx: each static
\* that is not NULL.  The statics themselves are left as they are.
PG_fini_freed == {h \in {cctx, dctx} : h # 0}

\* The host unloads the library, or a harness calls the hook: no call is in
\* progress.  Freeing a context that is not live is a double free, after
\* which the allocator either aborts the process or carries on damaged.
PG_fini(maxFinis) ==
  /\ phase \in {"unloaded", "ready"}
  /\ finis < maxFinis
  /\ \A w \in Workers : pc[w] # "codec"
  /\ frees' = [h \in Handles |-> IF h \in PG_fini_freed THEN frees[h] + 1 ELSE frees[h]]
  /\ live' = live \ PG_fini_freed
  /\ \E o \in (IF PG_fini_freed \subseteq live THEN {"unloaded"}
               ELSE {"undefined", "dead"}) : phase' = o
  /\ finis' = finis + 1
  /\ UNCHANGED <<cctx, dctx, inits, created,
                 pc, call, loc, log, res, failed, raced>>

\* ---------------------------------------------------------------- handlers
\* dict = NULL, dict_len = 0 unless the argument is given (lines 61-66, 95-100).
DictBytes(d) == IF d = Absent THEN <<>> ELSE Val(d)

\* A variant of compress_enter: the function behaves as if declared STRICT,
\* returning NULL when any argument is NULL.
compress_enter_strict(in, dict, level) ==
  IF in = Absent \/ dict = Absent \/ level = Absent THEN Over(ResNull, <<>>)
  ELSE LET out_len == ZSTD_compressBound(Len(Val(in)))
           out == Palloc(AddU64(U64(out_len), U64(VARHDRSZ)))
           lg == <<Entry("ZSTD_compressBound", FALSE, U64(out_len))>>
       IN  Enter(Loc(U64(0), out.size, U64(out_len), Val(level), cctx), lg)

\* compress, lines 53-69: up to the call of ZSTD_compress_usingDict.
compress_enter(in, dict, level) ==
  IF in = Absent THEN Over(ResNull, <<>>)
  ELSE LET in_len == Len(Val(in))
           lvl == IF level = Absent THEN DEFAULT_COMPRESSION_LEVEL ELSE Val(level)
           out_len == ZSTD_compressBound(in_len)
           out == Palloc(AddU64(U64(out_len), U64(VARHDRSZ)))
           lg == <<Entry("ZSTD_compressBound", FALSE, U64(out_len))>>
       IN  IF ~out.ok THEN Over(ResError("palloc"), lg)
           ELSE Enter(Loc(U64(0), out.size, U64(out_len), lvl, cctx), lg)

\* A variant of compress_finish: the buffer is returned at its allocated
\* size, without the repalloc and with the bound as its length.
compress_finish_noshrink(r, l) ==
  IF r.err THEN ResError("ZSTD_compress_usingDict")
  ELSE ResBytes(Datum(DataArea(l.alloc, SubSeq(r.out, 1, r.n)), l.alloc))

\* compress, lines 73-79: from the codec's return.
compress_finish(r, l) ==
  IF r.err THEN ResError("ZSTD_compress_usingDict")
  ELSE ResBytes(Datum(DataArea(r.n + VARHDRSZ, SubSeq(r.out, 1, r.n)),
                      r.n + VARHDRSZ))

\* A variant of decompress_enter: an unknown content size yields NULL, as it
\* does in length.
decompress_enter_unknown_null(in, dict) ==
  IF in = Absent THEN Over(ResNull, <<>>)
  ELSE LET out_len == ZSTD_getFrameContentSize(Val(in))
           lg == <<Entry("ZSTD_getFrameContentSize",
                         out_len = ZSTD_CONTENTSIZE_ERROR, out_len)>>
           out == Palloc(AddU64(out_len, U64(VARHDRSZ)))
       IN  IF out_len = ZSTD_CONTENTSIZE_UNKNOWN THEN Over(ResNull, lg)
           ELSE IF out_len = ZSTD_CONTENTSIZE_ERROR
           THEN Over(ResError("ZSTD_getFrameContentSize"), lg)
           ELSE IF ~out.ok THEN Over(ResError("palloc"), lg)
           ELSE Enter(Loc(out_len, out.size, out_len, 0, dctx), lg)

\* decompress, lines 89-111: up to the call of ZSTD_decompress_usingDict.
decompress_enter(in, dict) ==
  IF in = Absent THEN Over(ResNull, <<>>)
  ELSE LET out_len == ZSTD_getFrameContentSize(Val(in))
           lg == <<Entry("ZSTD_getFrameContentSize",
                         out_len = ZSTD_CONTENTSIZE_ERROR, out_len)>>
           out == Palloc(AddU64(out_len, U64(VARHDRSZ)))
       IN  IF out_len = ZSTD_CONTENTSIZE_UNKNOWN THEN Over(ResError("unknown"), lg)
           ELSE IF out_len = ZSTD_CONTENTSIZE_ERROR
           THEN Over(ResError("ZSTD_getFrameContentSize"), lg)
           ELSE IF ~out.ok THEN Over(ResError("palloc"), lg)
           ELSE Enter(Loc(out_len, out.size, out_len, 0, dctx), lg)

\* A variant of decompress_finish: the ZSTD_isError check of line 115 is
\* missing.
decompress_finish_unchecked(r, l) ==
  ResBytes(Datum(DataArea(l.alloc, r.out), Len(r.out) + VARHDRSZ))

\* decompress, lines 115-119: from the codec's return.
decompress_finish(r, l) ==
  IF r.err THEN ResError("ZSTD_decompress_usingDict")
  ELSE ResBytes(Datum(DataArea(l.alloc, r.out), r.n + VARHDRSZ))

\* A variant of length_result: a size of 0 is taken for "unknown", as the
\* older ZSTD_getDecompressedSize reports it.
length_result_zero_unknown(in) ==
  IF in = Absent THEN Over(ResNull, <<>>)
  ELSE LET out_len == ZSTD_getFrameContentSize(Val(in))
           lg == <<Entry("ZSTD_getFrameContentSize",
                         out_len = ZSTD_CONTENTSIZE_ERROR, out_len)>>
       IN  IF out_len = ZSTD_CONTENTSIZE_UNKNOWN \/ out_len = U64(0) THEN Over(ResNull, lg)
           ELSE IF out_len = ZSTD_CONTENTSIZE_ERROR
           THEN Over(ResError("ZSTD_getFrameContentSize"), lg)
           ELSE IF GtU64(out_len, U64(PG_INT32_MAX)) THEN Over(ResError("overflow"), lg)
           ELSE Over(ResInt(Int32Cast(out_len)), lg)

\* length, lines 128-146.
length_result(in) ==
  IF in = Absent THEN Over(ResNull, <<>>)
  ELSE LET out_len == ZSTD_getFrameContentSize(Val(in))
           lg == <<Entry("ZSTD_getFrameContentSize",
                         out_len = ZSTD_CONTENTSIZE_ERROR, out_len)>>
       IN  IF out_len = ZSTD_CONTENTSIZE_UNKNOWN THEN Over(ResNull, lg)
           ELSE IF out_len = ZSTD_CONTENTSIZE_ERROR
           THEN Over(ResError("ZSTD_getFrameContentSize"), lg)
           ELSE IF GtU64(out_len, U64(PG_INT32_MAX)) THEN Over(ResError("overflow"), lg)
           ELSE Over(ResInt(Int32Cast(out_len)), lg)

\* ------------------------------------------------------------------- calls
\* The compress call this input is the result of, when the worker's last
\* call was a compress that returned exactly this buffer.
Origin(w, in) ==
  IF call[w].op = "compress" /\ pc[w] = "ret" /\ res[w].kind = "bytes"
     /\ in = Some(res[w].bytes)
  THEN Some([in |-> Val(call[w].in), dict |-> call[w].dict, level |-> call[w].level])
  ELSE Absent

\* The workers inside a call on the context a new call is about to use.
Sharing(w, e) ==
  IF e.pc = "codec"
  THEN {v \in Workers \ {w} : pc[v] = "codec" /\ loc[v].handle = e.loc.handle}
  ELSE {}

\* The host dispatches a call: the handler runs to its context call, or to
\* its end when it makes none.  A worker at rest takes any call; one that
\* holds the buffer compress returned can pass it straight on.
Dispatch(w, c, e) ==
  /\ phase = "ready"
  /\ pc[w] = "idle" \/ (pc[w] = "ret" /\ c.origin # Absent)
  /\ call' = [call EXCEPT ![w] = c]
  /\ pc' = [pc EXCEPT ![w] = e.pc]
  /\ loc' = [loc EXCEPT ![w] = e.loc]
  /\ log' = [log EXCEPT ![w] = e.log]
  /\ res' = [res EXCEPT ![w] = e.res]
  /\ failed' = [failed EXCEPT ![w] = failed[w] \/ e.res.kind = "error"]
  /\ raced' = [v \in Workers |->
                 IF v = w THEN Sharing(w, e) # {}
                 ELSE raced[v] \/ v \in Sharing(w, e)]
  /\ UNCHANGED <<phase, lifecycle>>

\* The codec wrote at VARDATA(out) past the end of the chunk of l.alloc bytes.
Overflows(r, l) == Len(r.out) > 0 /\ Len(r.out) + VARHDRSZ > l.alloc

\* What an unsynchronised overlap of two calls on one context can make the
\* codec return instead of its own result.
Clobbered == {CodecErr(<<>>), CodecOk(<<Uninit>>)}

\* The ways a context call can end.  A write past the chunk (or a race on
\* the context) is undefined: the process may die in the codec, or the call
\* returns with the damage done, and what the process does from there is
\* not followed.
Outcomes(w, r) ==
  {[crash |-> FALSE, r |-> r]}
  \cup (IF Overflows(r, loc[w]) \/ raced[w] THEN {[crash |-> TRUE, r |-> r]} ELSE {})
  \cup (IF raced[w] THEN {[crash |-> FALSE, r |-> x] : x \in Clobbered} ELSE {})

Complete(w, fn, o, result) ==
  /\ phase' = IF o.crash THEN "dead"
              ELSE IF Overflows(o.r, loc[w]) THEN "undefined"
              ELSE phase
  /\ res' = [res EXCEPT ![w] = IF o.crash THEN ResCrash ELSE result]
  /\ log' = [log EXCEPT ![w] = IF o.crash THEN log[w]
                               ELSE Append(log[w], Entry(fn, o.r.err, U64(o.r.n)))]
  /\ pc' = [pc EXCEPT ![w] = "ret"]
  /\ raced' = [raced EXCEPT ![w] = FALSE]
  /\ failed' = [failed EXCEPT ![w] = failed[w] \/ (~o.crash /\ result.kind = "error")]
  /\ UNCHANGED <<lifecycle, call, loc>>

\* The host takes the result of a completed call; the worker is at rest.
Collect(w) ==
  /\ phase = "ready"
  /\ pc[w] = "ret"
  /\ pc' = [pc EXCEPT ![w] = "idle"]
  /\ call' = [call EXCEPT ![w] = NoCall]
  /\ loc' = [loc EXCEPT ![w] = NoLoc]
  /\ log' = [log EXCEPT ![w] = <<>>]
  /\ res' = [res EXCEPT ![w] = NoRes]
  /\ UNCHANGED <<phase, lifecycle, failed, raced>>

compress(w, ins, dicts, levels) ==
  /\ phase = "ready" /\ pc[w] = "idle"
  /\ \E in \in ins, d \in dicts, l \in levels :
       Dispatch(w, [op |-> "compress", in |-> in, dict |-> d, level |-> l,
                    origin |-> Absent],
                compress_enter(in, d, l))

compress_return(w) ==
  /\ phase = "ready" /\ pc[w] = "codec" /\ call[w].op = "compress"
  /\ \E o \in Outcomes(w, ZSTD_compress_usingDict(loc[w].cap, Val(call[w].in),
                                                  DictBytes(call[w].dict),
                                                  loc[w].level)) :
       Complete(w, "ZSTD_compress_usingDict", o, compress_finish(o.r, loc[w]))

decompress(w, ins, dicts) ==
  /\ phase = "ready" /\ pc[w] \in {"idle", "ret"}
  /\ \E in \in ins, d \in dicts :
       Dispatch(w, [op |-> "decompress", in |-> in, dict |-> d, level |-> Absent,
                    origin |-> Origin(w, in)],
                decompress_enter(in, d))

decompress_return(w) ==
  /\ phase = "ready" /\ pc[w] = "codec" /\ call[w].op = "decompress"
  /\ \E o \in Outcomes(w, ZSTD_decompress_usingDict(loc[w].cap, Val(call[w].in),
                                                    DictBytes(call[w].dict))) :
       Complete(w, "ZSTD_decompress_usingDict", o, decompress_finish(o.r, loc[w]))

length(w, ins) ==
  /\ phase = "ready" /\ pc[w] \in {"idle", "ret"}
  /\ \E in \in ins :
       Dispatch(w, [op |-> "length", in |-> in, dict |-> Absent, level |-> Absent,
                    origin |-> Origin(w, in)],
                length_result(in))

\* ------------------------------------------------------------------ inputs
Bytes == 0..ByteMax
Contents == UNION {[1..n -> Bytes] : n \in 0..MaxLen}
Inputs == {Absent} \cup {Some(b) : b \in Contents}
Dicts == {Absent, Some(<<0>>), Some(<<1, 0>>)}
Levels == {Absent, Some(1), Some(5)}

\* Buffers that no compress call produced.
Top(k) == <<LimbMax, LimbMax, LimbMax, Limb - k>>
DeclaredSizes ==
  {U64(0), U64(1), U64(2), U64(PG_INT32_MAX), <<0, 0, Limb \div 2, 0>>,
   Top(5), Top(4), Top(3), Top(2), Top(1)}
CraftTokens ==
  {<<>>, <<LitBase>>, <<LitBase, LitBase + 1>>, <<MatchBase>>,
   <<RleTag, LitBase, 2>>, <<RleTag, LitBase>>, <<99>>}
Garbage ==
  {<<>>, <<1, 2, 3, 4>>, <<ZSTD_MAGICNUMBER>>, <<ZSTD_MAGICNUMBER, 7>>,
   <<ZSTD_MAGICNUMBER, FhdFcs8, 0>>}
Crafted ==
  {Absent}
  \cup {Some(g) : g \in Garbage}
  \cup {Some(<<ZSTD_MAGICNUMBER, FhdNoFcs>> \o t) : t \in CraftTokens}
  \cup {Some(<<ZSTD_MAGICNUMBER, FhdFcs8>> \o d \o t) :
          d \in DeclaredSizes, t \in CraftTokens}

\* What a worker can hand to decompress or length: at rest a buffer of the
\* host's, after a compress call the buffer that call returned.
Given(w, crafted) ==
  IF pc[w] = "idle" THEN crafted
  ELSE IF call[w].op = "compress" /\ pc[w] = "ret" /\ res[w].kind = "bytes"
  THEN {Some(res[w].bytes)}
  ELSE {}

\* ---------------------------------------------------------- specifications
\* One backend, the library loaded once: every input of the bounded sets.
Next ==
  \/ PG_init(1)
  \/ PG_fini(1)
  \/ compress(1, Inputs, Dicts, Levels)
  \/ compress_return(1)
  \/ decompress(1, Given(1, Crafted), Dicts)
  \/ decompress_return(1)
  \/ length(1, Given(1, Crafted))
  \/ Collect(1)

Spec == Init /\ [][Next]_vars

\* One backend; the library is loaded, unloaded and loaded again, and the
\* unload hook may run without a load or twice in a row.
LifeInputs == {Absent, Some(<<0>>), Some(<<1, 1, 1>>)}
LifeCrafted ==
  {Some(<<1, 2, 3, 4>>),
   Some(<<ZSTD_MAGICNUMBER, FhdNoFcs, LitBase>>),
   Some(<<ZSTD_MAGICNUMBER, FhdFcs8>> \o U64(1) \o <<LitBase>>),
   Some(<<ZSTD_MAGICNUMBER, FhdFcs8>> \o U64(2) \o <<LitBase>>),
   Some(<<ZSTD_MAGICNUMBER, FhdFcs8>> \o Top(4) \o <<LitBase>>)}

NextLifecycle ==
  \/ PG_init(MaxInits)
  \/ PG_fini(MaxFinis)
  \/ compress(1, LifeInputs, {Absent}, {Absent})
  \/ compress_return(1)
  \/ decompress(1, Given(1, LifeCrafted), {Absent})
  \/ decompress_return(1)
  \/ length(1, Given(1, LifeCrafted))
  \/ Collect(1)

SpecLifecycle == Init /\ [][NextLifecycle]_vars

\* Several workers of one process call into the library at once.
NextConc ==
  \/ PG_init(1)
  \/ \E w \in Workers :
       \/ compress(w, LifeInputs, {Absent}, {Absent})
       \/ compress_return(w)
       \/ decompress(w, Given(w, LifeCrafted), {Absent})
       \/ decompress_return(w)
       \/ length(w, Given(w, LifeCrafted))
       \/ Collect(w)

SpecConc == Init /\ [][NextConc]_vars

\* ------------------------------------------------------------- properties
Done(w, op) == pc[w] = "ret" /\ call[w].op = op
From(w) == Val(call[w].origin)

\* The content size the size query reports for a buffer, when it reports one.
Declares(in) ==
  /\ in # Absent
  /\ ZSTD_getFrameContentSize(Val(in)) # ZSTD_CONTENTSIZE_UNKNOWN
  /\ ZSTD_getFrameContentSize(Val(in)) # ZSTD_CONTENTSIZE_ERROR

\* C1 (round trip): decompress, given the buffer compress(b, d, l) returned
\* for a non-empty b and the same dictionary d, returns exactly b.
C1_RoundTrip ==
  \A w \in Workers :
    (/\ Done(w, "decompress")
     /\ call[w].origin # Absent
     /\ call[w].dict = From(w).dict
     /\ From(w).in # <<>>)
    => res[w] = ResBytes(From(w).in)

C1_Witness ==
  /\ Done(1, "decompress")
  /\ call[1].origin # Absent
  /\ call[1].dict = From(1).dict
  /\ call[1].dict = Some(<<1, 0>>)
  /\ From(1).level = Some(5)
  /\ From(1).in = <<1, 1, 1>>
  /\ res[1].kind = "bytes"

\* C2 (length agreement): length, given the buffer compress(b, d, l)
\* returned, returns the integer len(b).
C2_LengthAgreement ==
  \A w \in Workers :
    (Done(w, "length") /\ call[w].origin # Absent)
    => res[w] = ResInt(Len(From(w).in))

C2_Witness ==
  /\ Done(1, "length")
  /\ call[1].origin # Absent
  /\ From(1).in = <<>>
  /\ From(1).dict # Absent
  /\ res[1].kind = "int"

\* C3 (absence propagation): compress and decompress return NULL exactly
\* when their input is NULL, length exactly when its input is NULL or the
\* size query reports the content size unknown; a NULL input is never an
\* error and makes no codec call.
C3_AbsencePropagation ==
  \A w \in Workers :
    pc[w] = "ret" =>
      /\ call[w].op \in {"compress", "decompress"}
           => (res[w].kind = "null" <=> call[w].in = Absent)
      /\ call[w].op = "length"
           => (res[w].kind = "null" <=>
                 (\/ call[w].in = Absent
                  \/ ZSTD_getFrameContentSize(Val(call[w].in))
                       = ZSTD_CONTENTSIZE_UNKNOWN))
      /\ call[w].in = Absent => (res[w] = ResNull /\ log[w] = <<>>)

C3_Witness ==
  /\ Done(1, "decompress")
  /\ call[1].in = Absent
  /\ call[1].dict # Absent
  /\ res[1] = ResNull

\* C4 (overflow guard): for an input whose declared content size exceeds
\* PG_INT32_MAX, length and decompress end in a hard failure: no size, no
\* buffer, and nothing written outside the output chunk.
C4_OverflowGuard ==
  \A w \in Workers :
    (/\ pc[w] = "ret"
     /\ call[w].op \in {"length", "decompress"}
     /\ Declares(call[w].in)
     /\ GtU64(ZSTD_getFrameContentSize(Val(call[w].in)), U64(PG_INT32_MAX)))
    => (res[w].kind = "error" /\ phase # "undefined")

\* C5 (codec error propagation): a codec call that reports an error is the
\* last codec call of its handler, and the handler ends in a hard failure.
C5_CodecErrorPropagation ==
  \A w \in Workers :
    (pc[w] = "ret" /\ \E i \in 1..Len(log[w]) : log[w][i].err)
    => /\ res[w].kind = "error"
       /\ \A i \in 1..Len(log[w]) : log[w][i].err => i = Len(log[w])

C5_Witness ==
  /\ Done(1, "decompress")
  /\ Len(log[1]) = 2
  /\ log[1][2].err
  /\ res[1].kind = "error"

\* C6 (unknown content size): when the size query reports the size unknown,
\* decompress fails hard having made no other codec call and no allocation,
\* and length returns NULL.
C6_UnknownSize ==
  \A w \in Workers :
    (/\ pc[w] = "ret"
     /\ call[w].in # Absent
     /\ ZSTD_getFrameContentSize(Val(call[w].in)) = ZSTD_CONTENTSIZE_UNKNOWN)
    => /\ call[w].op = "decompress"
            => /\ res[w] = ResError("unknown")
               /\ log[w] = <<Entry("ZSTD_getFrameContentSize", FALSE,
                                    ZSTD_CONTENTSIZE_UNKNOWN)>>
               /\ loc[w] = NoLoc
       /\ call[w].op = "length" => res[w] = ResNull

C6_Witness ==
  /\ Done(1, "decompress")
  /\ call[1].in = Some(<<ZSTD_MAGICNUMBER, FhdNoFcs, LitBase>>)
  /\ res[1].kind = "error"

\* C7 (idempotent lifecycle): no context is handed to its free routine more
\* than once, over any sequence of _PG_init and _PG_fini.
C7_FreedAtMostOnce == \A h \in Handles : frees[h] <= 1

\* C8 (handle validity): while the library is loaded, and wherever a handler
\* is inside a context call, both statics are non-NULL, live, and the
\* handles _PG_init returned with.
C8_HandlesValid ==
  /\ phase = "ready"
       => /\ cctx # 0 /\ dctx # 0
          /\ {cctx, dctx} \subseteq live
          /\ created = <<cctx, dctx>>
  /\ \A w \in Workers :
       pc[w] = "codec"
         => /\ phase = "ready"
            /\ loc[w].handle = (IF call[w].op = "compress" THEN cctx ELSE dctx)
            /\ loc[w].handle \in live

C8_Witness ==
  /\ failed[1]
  /\ inits = 2
  /\ Done(1, "decompress")
  /\ res[1].kind = "bytes"

\* What a call returns when it runs with no other call in progress.
Alone(c) ==
  IF c.op = "compress"
  THEN LET e == compress_enter(c.in, c.dict, c.level)
       IN  IF e.pc = "ret" THEN e.res
           ELSE compress_finish(ZSTD_compress_usingDict(e.loc.cap, Val(c.in),
                                  DictBytes(c.dict), e.loc.level), e.loc)
  ELSE IF c.op = "decompress"
  THEN LET e == decompress_enter(c.in, c.dict)
       IN  IF e.pc = "ret" THEN e.res
           ELSE decompress_finish(ZSTD_decompress_usingDict(e.loc.cap, Val(c.in),
                                    DictBytes(c.dict)), e.loc)
  ELSE length_result(c.in).res

\* C9 (call independence): no two calls in progress are inside the same
\* context at once, and every call returns what it returns when run alone.
C9_CallIndependence ==
  /\ \A v \in Workers, w \in Workers :
       (v # w /\ pc[v] = "codec" /\ pc[w] = "codec")
         => loc[v].handle # loc[w].handle
  /\ \A w \in Workers : pc[w] = "ret" => res[w] = Alone(call[w])

\* C10 (output sizing): inside decompress's context call the chunk holds
\* exactly the declared size after its header and the capacity passed is that
\* size; a buffer decompress returns has the size the codec returned, which
\* is the declared size.
C10_OutputSizing ==
  \A w \in Workers :
    call[w].op = "decompress" =>
      /\ pc[w] = "codec"
           => /\ loc[w].cap = loc[w].declared
              /\ loc[w].alloc >= VARHDRSZ
              /\ U64(loc[w].alloc - VARHDRSZ) = loc[w].declared
      /\ (pc[w] = "ret" /\ res[w].kind = "bytes")
           => /\ U64(Len(res[w].bytes)) = log[w][Len(log[w])].ret
              /\ U64(Len(res[w].bytes)) = loc[w].declared

=============================================================================
